---- MODULE Spec2Model ----
(***************************************************************************)
(* Model of boids2d.py: the boid2D agent (findnear, adjustheading,         *)
(* movetick), the module-level parameters it reads (senserange, separate,  *)
(* align, cohere, velocity, noise, bounce, root_sep), and boidrender as    *)
(* the program runs it: start() runs the first tick itself, then Tk's      *)
(* mainloop dispatches the callbacks that write the parameters (the set*   *)
(* methods through the sliders, updatebounce), reset the sliders (reset),  *)
(* or run a tick (update).                                                 *)
(*                                                                         *)
(* Numbers.  Positions, headings, senserange, velocity and noise are       *)
(* integers counting hundredths of a pixel (PosDen), the three weights     *)
(* count tenths (WeightDen) and the square roots of the separation rule    *)
(* ten-thousandths (RootDen).  The square roots are truncated to that      *)
(* resolution and the final rescaling h*velocity/magnitude is rounded to a *)
(* hundredth; every other operation of the code is exact on these values.  *)
(* The means sum/len are not rounded: adjustheading normalises its result, *)
(* so the positive common factor len*WeightDen*RootDen is carried to the   *)
(* normalisation, which cancels it.                                        *)
(*                                                                         *)
(* Comparisons.  The variable rounded tells whether the headings, and the  *)
(* positions, have been through that rounding.  While they have not, each  *)
(* comparison of the code (the range tests of findnear, the side test of   *)
(* line 93, the edge tests of lines 136-141) has the one outcome the code  *)
(* computes.  Once they have, the code's values lie within a few           *)
(* hundredths of the values here, and a comparison whose two sides are     *)
(* within Tol of each other has both outcomes: whichever way the code's    *)
(* comparison falls, the step is among the steps of the model.             *)
(*                                                                         *)
(* A tick.  update runs as one call; here its loop iterations are separate *)
(* steps (start or update, update_adjust per boid, update_move per boid),  *)
(* and no callback starts before the last one.                             *)
(*                                                                         *)
(* Noise.  random.random() is an input of each movetick, counted in tenths *)
(* (RandDen) and taken from RandomVals; the sliders deliver noise in       *)
(* tenths of a pixel, so random.random()*noise - noise/2 is exact.         *)
(*                                                                         *)
(* Spec is the program from construction.  SpecLoop is the main loop from  *)
(* a state between two ticks: callbacks, then one tick.  SpecMove runs     *)
(* movetick, and SpecNear findnear and adjustheading, on chosen            *)
(* arrangements of the boids; in these three the values the steps start    *)
(* from are the code's own.                                                *)
(***************************************************************************)
EXTENDS Integers, Sequences, FiniteSets

(* Size of the model. *)
boids == 2
bounds == 10
MaxTicks == 3
MaxChanges == 1

(* Hundredths: resolution of positions, headings, senserange, velocity and *)
(* noise.                                                                  *)
PosDen == 100

(* Tenths: resolution of the weights. *)
WeightDen == 10

(* Ten-thousandths: resolution of the square roots of the separation rule. *)
RootDen == 10000

(* Tenths: resolution of the values of random.random(). *)
RandDen == 10

(* Hundredths: in every run of Spec, through MaxTicks ticks with at most   *)
(* MaxChanges parameters written, each position and heading of the code    *)
(* lies within Tol of the rounded one here (within 6 hundredths, the       *)
(* largest after setvelocity(10)), so the two sides of a comparison made   *)
(* on rounded values that are at most this far apart are taken to compare  *)
(* either way.  The bound belongs to these runs: adjustheading can         *)
(* magnify a difference of its inputs without limit when the steering      *)
(* terms cancel, so it does not extend to longer runs or other values.     *)
Tol == 10

(* The vector handed to the normalisation is scaled down until its larger  *)
(* component is below NormMax, so that its squared magnitude is a 32-bit   *)
(* integer.                                                                *)
NormMax == 30000

(* boidrender.defaultparams *)
defaultparams ==
    [senserange |-> 50 * PosDen, separate |-> 45, align |-> 20, cohere |-> 7,
     velocity |-> 5 * PosDen, noise |-> 1 * PosDen]

VARIABLES
    pos,        \* boid.pos of each boid of boidarr: <<x, y>>
    heading,    \* boid.heading of each boid of boidarr: <<x, y>>
    senserange, separate, align, cohere, velocity, noise, bounce, root_sep,
    mainloop,   \* start() has reached win.mainloop(): callbacks are dispatched
    pending,    \* reset has set the Scales, their commands have not run yet
    rounded,    \* which of "heading", "pos" hold rounded values
    pc,         \* position of the running update: "idle", "pass1", "pass2"
    idx,        \* index in boidarr of the boid the running loop handles next
    crashed,    \* an exception left update: the tick is never rescheduled
    ticks,      \* completed ticks
    changes,    \* parameter callbacks run
    snap,       \* pos and heading as they were when the running tick started
    seen,       \* parameter values read by the boids handled in this tick
    last,       \* what the latest loop iteration did
    inrun       \* bounce is on, and was switched on with every boid inside

vars == <<pos, heading, senserange, separate, align, cohere, velocity, noise,
          bounce, root_sep, mainloop, pending, rounded, pc, idx, crashed,
          ticks, changes, snap, seen, last, inrun>>

Axes == {1, 2}
boidarr == 1 .. boids

(* boid.idnum: boidarr[i] is built with idnum i - 1 (range(boids)). *)
idnum(b) == b - 1

(*-------------------------- arithmetic ----------------------------------*)
Abs(x) == IF x < 0 THEN -x ELSE x

Sgn(x) == IF x > 0 THEN 1 ELSE IF x < 0 THEN -1 ELSE 0

RECURSIVE SqrtBetween(_, _, _)
SqrtBetween(x, lo, hi) ==
    IF lo = hi THEN lo
    ELSE LET mid == (lo + hi + 1) \div 2
         IN  IF mid * mid <= x THEN SqrtBetween(x, mid, hi)
                               ELSE SqrtBetween(x, lo, mid - 1)

(* math.sqrt for x >= 0, truncated.  46340 is the largest root of a       *)
(* 32-bit integer.                                                         *)
Sqrt(x) == SqrtBetween(x, 0, IF x < 46340 THEN x ELSE 46340)

(* a/b <= c/d for a, c >= 0 and b, d > 0, compared by continued fractions *)
(* (no product is formed).                                                 *)
RECURSIVE FracLeq(_, _, _, _)
FracLeq(a, b, c, d) ==
    IF a \div b # c \div d THEN a \div b < c \div d
    ELSE IF a % b = 0 THEN TRUE
    ELSE IF c % d = 0 THEN FALSE
    ELSE FracLeq(d, c % d, b, a % b)

RECURSIVE SumSeq(_)
SumSeq(s) == IF s = <<>> THEN 0 ELSE Head(s) + SumSeq(Tail(s))

(*--------------------------- comparisons --------------------------------*)
(* The tolerance of a comparison between positions, and of one that        *)
(* involves a heading.                                                     *)
PosTol == IF "pos" \in rounded THEN Tol ELSE 0

RawTol == IF rounded # {} THEN Tol ELSE 0

(* The outcomes of the code's x < y, for x - y known to within t. *)
Less(x, y, t) ==
    IF x + t < y THEN {TRUE}
    ELSE IF x - t >= y THEN {FALSE}
    ELSE BOOLEAN

(*------------------------- boid2D.findnear ------------------------------*)
(* "Rough (but fast) check": both coordinate differences below senserange. *)
(* math.fabs is never negative, so nothing is below a senserange of 0.     *)
RoughCheck(self, boid, P) ==
    IF senserange <= 0 THEN {FALSE}
    ELSE {a /\ b :
            a \in Less(Abs(P[boid][1] - P[self][1]), senserange, PosTol),
            b \in Less(Abs(P[boid][2] - P[self][2]), senserange, PosTol)}

(* The actual check with <= for <: a boid at distance senserange passes. *)
ActualCheckLe(self, boid, P) ==
    LET d2 == (P[boid][1] - P[self][1]) * (P[boid][1] - P[self][1])
              + (P[boid][2] - P[self][2]) * (P[boid][2] - P[self][2])
        t == PosTol
    IN  IF senserange < 0 THEN {FALSE}
        ELSE IF senserange >= t /\ d2 <= (senserange - t) * (senserange - t)
        THEN {TRUE}
        ELSE IF d2 > (senserange + t) * (senserange + t) THEN {FALSE}
        ELSE BOOLEAN

(* "Actual check": math.sqrt(dx**2 + dy**2) < senserange.  A square root   *)
(* is never negative and squaring is monotone on the non-negatives, so the *)
(* comparison is senserange > 0 and dx**2 + dy**2 < senserange**2; with    *)
(* the distance known to within t, it holds below senserange - t and fails *)
(* from senserange + t on.                                                 *)
ActualCheck(self, boid, P) ==
    LET d2 == (P[boid][1] - P[self][1]) * (P[boid][1] - P[self][1])
              + (P[boid][2] - P[self][2]) * (P[boid][2] - P[self][2])
        t == PosTol
    IN  IF senserange <= 0 THEN {FALSE}
        ELSE IF senserange > t /\ d2 < (senserange - t) * (senserange - t)
        THEN {TRUE}
        ELSE IF d2 >= (senserange + t) * (senserange + t) THEN {FALSE}
        ELSE BOOLEAN

(* The lists the loop of findnear can build from boidarr[k] on. *)
RECURSIVE findnearFrom(_, _, _)
findnearFrom(self, k, P) ==
    IF k > boids THEN {<<>>}
    ELSE {(IF a /\ b /\ idnum(self) # idnum(k) THEN <<k>> ELSE <<>>) \o rest :
            a \in RoughCheck(self, k, P),
            b \in ActualCheck(self, k, P),
            rest \in findnearFrom(self, k + 1, P)}

(* findnear without the range checks: every other boid is returned. *)
findnearAll(self, P) ==
    {IF self = 1 THEN [k \in 1 .. boids - 1 |-> k + 1]
     ELSE [k \in 1 .. boids - 1 |-> IF k < self THEN k ELSE k + 1]}

(* The values subarr can have, each in the order of boidarr; P holds the   *)
(* positions of boidarr.  One value, unless a range test is made on        *)
(* rounded positions within Tol of senserange.                             *)
findnear(self, P) == findnearFrom(self, 1, P)

(*----------------------- boid2D.adjustheading ---------------------------*)
(* The argument of math.sqrt, and the base of the square, for one guide    *)
(* boid and one axis.                                                      *)
Radicand(self, boid, i, P) == senserange - Abs(P[self][i] - P[boid][i])

Radicands(self, guideboids, P) ==
    {Radicand(self, guideboids[k], i, P) : k \in 1 .. Len(guideboids), i \in Axes}

(* math.sqrt raises ValueError on a negative argument.  An argument that   *)
(* is computed from rounded positions and is less than PosTol below zero   *)
(* belongs to a boid that passed the rough check within the same           *)
(* tolerance, and is taken as zero.                                        *)
SqrtRaises(self, guideboids, P) ==
    /\ root_sep
    /\ \E r \in Radicands(self, guideboids, P) : r < - PosTol

(* The outcomes of boid.pos[i] < self.pos[i] (line 93) for every guide     *)
(* boid and axis.                                                          *)
Lower(self, guideboids, P) ==
    {f \in [boidarr -> [Axes -> BOOLEAN]] :
        \A k \in boidarr : \A i \in Axes :
            IF \E j \in 1 .. Len(guideboids) : guideboids[j] = k
            THEN f[k][i] \in Less(P[k][i], P[self][i], PosTol)
            ELSE ~ f[k][i]}

(* math.sqrt(r/PosDen) in units of 1/RootDen, truncated: the largest c of  *)
(* lo .. hi with c/RootDen <= (r/PosDen) / (c/RootDen).                    *)
RECURSIVE RootBetween(_, _, _)
RootBetween(r, lo, hi) ==
    IF lo = hi THEN lo
    ELSE LET mid == (lo + hi + 1) \div 2
         IN  IF FracLeq(mid, RootDen, r * (RootDen \div PosDen), mid)
             THEN RootBetween(r, mid, hi)
             ELSE RootBetween(r, lo, mid - 1)

(* What one guide boid adds to anticrowd[i], in units of 1/RootDen: the    *)
(* root of r/PosDen, or its square.  lower[boid][i] is the outcome of      *)
(* boid.pos[i] < self.pos[i].                                              *)
anticrowdTerm(self, boid, i, P, lower) ==
    LET r == IF Radicand(self, boid, i, P) < 0 THEN 0
             ELSE Radicand(self, boid, i, P)
        root == RootBetween(r, 0, RootDen * (Sqrt(r \div PosDen) + 1))
    IN  IF root_sep
        THEN IF lower[boid][i] THEN - root ELSE root
        ELSE - (Radicand(self, boid, i, P) * Radicand(self, boid, i, P)
                * (RootDen \div (PosDen * PosDen)))

(* The three sums over guideboids, before "Convert from sums to mean". *)
anticrowdSum(self, guideboids, i, P, lower) ==
    SumSeq([k \in 1 .. Len(guideboids) |->
              anticrowdTerm(self, guideboids[k], i, P, lower)])

meanposSum(guideboids, i, P) ==
    SumSeq([k \in 1 .. Len(guideboids) |-> P[guideboids[k]][i]])

meanheadSum(guideboids, i, H) ==
    SumSeq([k \in 1 .. Len(guideboids) |-> H[guideboids[k]][i]])

(* heading[i] - separate*anticrowd[i] + cohere*(meanpos[i] - pos[i])       *)
(*            + align*meanhead[i], times len(guideboids)*WeightDen*RootDen. *)
steer(self, guideboids, i, P, H, lower) ==
    LET n == Len(guideboids)
        k == RootDen \div PosDen
    IN  n * WeightDen * k * H[self][i]
        - separate * anticrowdSum(self, guideboids, i, P, lower)
        + k * cohere * (meanposSum(guideboids, i, P) - n * P[self][i])
        + k * align * meanheadSum(guideboids, i, H)

(* h scaled down by a whole factor until both components are below        *)
(* NormMax (the direction is kept to 1 part in NormMax/2).                 *)
reduce(h) ==
    LET s == IF Abs(h[1]) > Abs(h[2]) THEN Abs(h[1]) ELSE Abs(h[2])
        k == s \div NormMax + 1
    IN  <<Sgn(h[1]) * (Abs(h[1]) \div k), Sgn(h[2]) * (Abs(h[2]) \div k)>>

(* a*v/magnitude rounded to a whole number, for a*a = a2 and               *)
(* magnitude**2 = m2: the largest c of lo .. hi with                       *)
(* (c - 1/2)/v <= a/magnitude.                                             *)
RECURSIVE RescaleBetween(_, _, _, _, _)
RescaleBetween(a2, m2, v, lo, hi) ==
    IF lo = hi THEN lo
    ELSE LET mid == (lo + hi + 1) \div 2
         IN  IF FracLeq((2 * mid - 1) * (2 * mid - 1), 4 * v * v, a2, m2)
             THEN RescaleBetween(a2, m2, v, mid, hi)
             ELSE RescaleBetween(a2, m2, v, lo, mid - 1)

(* The rescaling with the sum of the absolute components for the          *)
(* magnitude.                                                              *)
normalizeTaxi(h) ==
    LET g == reduce(h)
        m == Abs(g[1]) + Abs(g[2])
    IN  IF m = 0 THEN <<0, 0>>
        ELSE <<(g[1] * velocity) \div m, (g[2] * velocity) \div m>>

(* "Normalize heading vector and adjust to set velocity": zero stays zero, *)
(* otherwise h[i]*velocity/magnitude.                                      *)
normalize(h) ==
    LET g == reduce(h)
        m2 == g[1] * g[1] + g[2] * g[2]
        comp(i) == Sgn(h[i]) * Sgn(velocity)
                   * RescaleBetween(g[i] * g[i], m2, Abs(velocity), 0, Abs(velocity))
    IN  IF m2 = 0 THEN <<0, 0>> ELSE <<comp(1), comp(2)>>

(* The heading adjustheading leaves in self, from positions P and headings *)
(* H.  Defined when SqrtRaises is false.                                   *)
adjustheading(self, guideboids, P, H, lower) ==
    normalize(IF Len(guideboids) = 0
              THEN H[self]
              ELSE <<steer(self, guideboids, 1, P, H, lower),
                     steer(self, guideboids, 2, P, H, lower)>>)

(*------------------------- boid2D.movetick ------------------------------*)
(* The values of random.random(), which lie in [0, 1), that movetick is    *)
(* run with.                                                               *)
RandomVals == {0, 9}

(* random.random()*noise - noise/2 *)
NoiseDraws == {(r * noise) \div RandDen - noise \div 2 : r \in RandomVals}

(* The outcomes of the two edge tests of one axis: over is                 *)
(* self.pos[i] > bound, under is self.pos[i] < 0, both made on the moved   *)
(* position raw.                                                           *)
EdgeTests(raw, bound) ==
    {[over |-> a, under |-> b] :
        a \in Less(bound, raw, RawTol), b \in Less(raw, 0, RawTol)}

(* movetick reflecting at the far edge only: the test "or self.pos[i] < 0" *)
(* left out.                                                               *)
moveaxisFarEdge(p, h, n, bound, addnoise, e) ==
    LET raw == p + h
        h1 == IF addnoise THEN h + n ELSE h
    IN  IF bounce
        THEN [pos |-> raw, heading |-> IF e.over THEN - h1 ELSE h1]
        ELSE [pos |-> IF e.over THEN raw - bound
                      ELSE IF e.under THEN bound - raw
                      ELSE raw,
              heading |-> h1]

(* One axis of movetick: position p, heading h, noise draw n, outcomes e   *)
(* of the edge tests.  update calls movetick with addnoise = True.         *)
moveaxis(p, h, n, bound, addnoise, e) ==
    LET raw == p + h
        h1 == IF addnoise THEN h + n ELSE h
    IN  IF bounce
        THEN [pos |-> raw,
              heading |-> IF e.over \/ e.under THEN - h1 ELSE h1]
        ELSE [pos |-> IF e.over THEN raw - bound
                      ELSE IF e.under THEN bound - raw
                      ELSE raw,
              heading |-> h1]

movetick(p, h, n, bound, addnoise, e) ==
    LET x == moveaxis(p[1], h[1], n[1], bound, addnoise, e[1])
        y == moveaxis(p[2], h[2], n[2], bound, addnoise, e[2])
    IN  [pos |-> <<x.pos, y.pos>>, heading |-> <<x.heading, y.heading>>]

(*--------------------------- the parameters -----------------------------*)
Params ==
    [senserange |-> senserange, separate |-> separate, align |-> align,
     cohere |-> cohere, velocity |-> velocity, noise |-> noise,
     bounce |-> bounce, root_sep |-> root_sep]

(* Values the sliders call the set* methods with: each Scale runs from 0   *)
(* (from_ is not given) to its "to" option.                                *)
RangeVals == {0, 5 * PosDen}
VelocityVals == {0, 10 * PosDen}
NoiseVals == {0}
WeightVals == {(5 * WeightDen) \div 2}

(*--------------------------- initial state ------------------------------*)
(* boidrender.__init__ draws each position from [0, bounds) x [0, bounds)  *)
(* and each heading on the circle of radius velocity.  The positions here  *)
(* are the boids in a row 4 apart, and on a diagonal 5 apart that starts   *)
(* next to the corner (0, 0); the headings all the same, or opposite in    *)
(* turn.                                                                   *)
RowPos == [b \in boidarr |-> <<(2 + 4 * (b - 1)) * PosDen, 5 * PosDen>>]

DiagonalPos ==
    [b \in boidarr |-> <<(1 + ((3 * (b - 1)) % (bounds - 1))) * PosDen,
                         (1 + ((4 * (b - 1)) % (bounds - 1))) * PosDen>>]

SameHeading == [b \in boidarr |-> <<5 * PosDen, 0>>]

OppositeHeading ==
    [b \in boidarr |-> IF b % 2 = 1 THEN <<-4 * PosDen, -3 * PosDen>>
                                    ELSE <<4 * PosDen, 3 * PosDen>>]

StartPos == {RowPos, DiagonalPos}

StartHeading == {SameHeading, OppositeHeading}

(* The program starts with the row heading one way, or with the diagonal   *)
(* heading opposite ways.                                                  *)
Starts ==
    { [pos |-> RowPos, heading |-> SameHeading],
      [pos |-> DiagonalPos, heading |-> OppositeHeading] }

NoLower == [k \in boidarr |-> [i \in Axes |-> FALSE]]

NoLast ==
    [op |-> "none", boid |-> 0, guide |-> <<>>, lower |-> NoLower,
     rads |-> {}, pre |-> <<0, 0>>, raw |-> <<0, 0>>, n |-> <<0, 0>>,
     params |-> Params]

Inside(x) == 0 <= x /\ x <= bounds * PosDen

AllInside == \A b \in boidarr : \A i \in Axes : Inside(pos[b][i])

(* The state when boidrender() returns (line 311). *)
Init ==
    /\ \E s \in Starts : pos = s.pos /\ heading = s.heading
    /\ senserange = defaultparams.senserange
    /\ separate = defaultparams.separate
    /\ align = defaultparams.align
    /\ cohere = defaultparams.cohere
    /\ velocity = defaultparams.velocity
    /\ noise = 1 * PosDen
    /\ bounce = FALSE
    /\ root_sep = TRUE
    /\ mainloop = FALSE
    /\ pending = FALSE
    /\ rounded = {}
    /\ pc = "idle"
    /\ idx = 1
    /\ crashed = FALSE
    /\ ticks = 0
    /\ changes = 0
    /\ snap = [pos |-> pos, heading |-> heading]
    /\ seen = {}
    /\ last = NoLast
    /\ inrun = FALSE

(* Callbacks started while another one is running. *)
DispatchAnytime == TRUE

(*----------------------------- callbacks --------------------------------*)
(* win.mainloop() runs one callback at a time, each to its end: a callback *)
(* starts only once start() has reached the main loop and while no other   *)
(* is running.                                                             *)
Dispatch == mainloop /\ pc = "idle"

agents == <<pos, heading, rounded>>
tickstate == <<mainloop, pc, idx, crashed, ticks, snap, seen, last>>

(* A callback that writes a parameter; the run ends with tick MaxTicks. *)
Callback ==
    /\ Dispatch
    /\ ticks < MaxTicks
    /\ changes < MaxChanges
    /\ changes' = changes + 1

(* A Scale runs its command, with the value the slider was moved to, from  *)
(* the idle handler that redraws it.  The handlers of all Scales that have *)
(* been set run together, so no slider's command runs while the commands   *)
(* of a reset are still to run: that command runs after idlecommands.      *)
Slider == Callback /\ ~ pending

setcohere(newval) ==
    /\ Slider
    /\ cohere' = newval
    /\ UNCHANGED <<agents, tickstate, inrun, pending, senserange, separate,
                   align, velocity, noise, bounce, root_sep>>

setseparate(newval) ==
    /\ Slider
    /\ separate' = newval
    /\ UNCHANGED <<agents, tickstate, inrun, pending, senserange, align,
                   cohere, velocity, noise, bounce, root_sep>>

setalign(newval) ==
    /\ Slider
    /\ align' = newval
    /\ UNCHANGED <<agents, tickstate, inrun, pending, senserange, separate,
                   cohere, velocity, noise, bounce, root_sep>>

setnoise(newval) ==
    /\ Slider
    /\ noise' = newval
    /\ UNCHANGED <<agents, tickstate, inrun, pending, senserange, separate,
                   align, cohere, velocity, bounce, root_sep>>

setvelocity(newval) ==
    /\ Slider
    /\ velocity' = newval
    /\ UNCHANGED <<agents, tickstate, inrun, pending, senserange, separate,
                   align, cohere, noise, bounce, root_sep>>

setrange(newval) ==
    /\ Slider
    /\ senserange' = newval
    /\ UNCHANGED <<agents, tickstate, inrun, pending, separate, align, cohere,
                   velocity, noise, bounce, root_sep>>

updatebounce ==
    /\ Callback
    /\ bounce' = ~ bounce
    /\ inrun' = (~ bounce /\ AllInside)
    /\ UNCHANGED <<agents, tickstate, pending, senserange, separate, align,
                   cohere, velocity, noise, root_sep>>

(*------------------------- boidrender.update ----------------------------*)
paramvars == <<senserange, separate, align, cohere, velocity, noise, bounce,
               root_sep>>

(* reset calls set() of the six Scale widgets with the default values and  *)
(* writes no parameter: the commands of the Scales are left to run.        *)
reset ==
    /\ Dispatch
    /\ ticks < MaxTicks
    /\ pending' = TRUE
    /\ UNCHANGED <<agents, tickstate, inrun, changes, paramvars>>

(* Tk's idle handlers redraw the Scales that reset has set, and each runs  *)
(* its command with the value it was set to: setcohere, setseparate,       *)
(* setalign, setnoise, setvelocity and setrange run with the defaults, one *)
(* after the other with nothing in between.  Idle handlers run when no     *)
(* event and no timer is due, so an update that is due runs first.         *)
idlecommands ==
    /\ Dispatch
    /\ pending
    /\ pending' = FALSE
    /\ cohere' = defaultparams.cohere
    /\ separate' = defaultparams.separate
    /\ align' = defaultparams.align
    /\ noise' = defaultparams.noise
    /\ velocity' = defaultparams.velocity
    /\ senserange' = defaultparams.senserange
    /\ UNCHANGED <<agents, tickstate, inrun, changes, bounce, root_sep>>

(* update is entered: its first loop begins. *)
enter ==
    /\ pc' = "pass1"
    /\ idx' = 1
    /\ snap' = [pos |-> pos, heading |-> heading]
    /\ seen' = {}
    /\ UNCHANGED <<agents, paramvars, mainloop, pending, crashed, ticks,
                   changes, last, inrun>>

(* start() calls update() itself, before win.mainloop(). *)
start ==
    /\ ~ mainloop
    /\ pc = "idle"
    /\ ~ crashed
    /\ enter

(* The timer set by win.after fires. *)
update ==
    /\ Dispatch
    /\ ~ crashed
    /\ ticks < MaxTicks
    /\ enter

(* One iteration of the first loop:                                        *)
(* boid.adjustheading(boid.findnear(self.boidarr)).                        *)
update_adjust ==
    /\ pc = "pass1"
    /\ \E guideboids \in findnear(idx, pos) :
       \E lower \in Lower(idx, guideboids, pos) :
          /\ last' = [op |-> "adjust", boid |-> idx, guide |-> guideboids,
                      lower |-> lower,
                      rads |-> IF root_sep
                               THEN Radicands(idx, guideboids, pos)
                               ELSE {},
                      pre |-> heading[idx], raw |-> pos[idx],
                      n |-> <<0, 0>>, params |-> Params]
          /\ IF SqrtRaises(idx, guideboids, pos)
             THEN /\ crashed' = TRUE
                  /\ pc' = "idle"
                  /\ UNCHANGED <<heading, rounded, idx>>
             ELSE /\ heading' = [heading EXCEPT
                                   ![idx] = adjustheading(idx, guideboids, pos,
                                                          heading, lower)]
                  /\ rounded' = rounded \cup {"heading"}
                  /\ IF idx = boids
                     THEN pc' = "pass2" /\ idx' = 1
                     ELSE pc' = pc /\ idx' = idx + 1
                  /\ UNCHANGED crashed
    /\ seen' = seen \cup {Params}
    /\ UNCHANGED <<pos, paramvars, mainloop, pending, ticks, changes, snap,
                   inrun>>

(* One iteration of the second loop: boid.movetick(self.bounds, 0.5, True); *)
(* after the last one win.after schedules the next tick, and the update    *)
(* called by start() returns to win.mainloop().                            *)
update_move ==
    /\ pc = "pass2"
    /\ \E n \in NoiseDraws \X NoiseDraws :
       \E e \in EdgeTests(pos[idx][1] + heading[idx][1], bounds * PosDen)
                \X EdgeTests(pos[idx][2] + heading[idx][2], bounds * PosDen) :
          LET m == movetick(pos[idx], heading[idx], n, bounds * PosDen, TRUE, e)
          IN  /\ pos' = [pos EXCEPT ![idx] = m.pos]
              /\ heading' = [heading EXCEPT ![idx] = m.heading]
              /\ last' = [op |-> "move", boid |-> idx, guide |-> <<>>,
                          lower |-> NoLower, rads |-> {},
                          pre |-> heading[idx],
                          raw |-> <<pos[idx][1] + heading[idx][1],
                                    pos[idx][2] + heading[idx][2]>>,
                          n |-> n, params |-> Params]
    /\ rounded' = IF rounded = {} THEN rounded ELSE rounded \cup {"pos"}
    /\ seen' = seen \cup {Params}
    /\ IF idx = boids
       THEN pc' = "idle" /\ idx' = 1 /\ ticks' = ticks + 1 /\ mainloop' = TRUE
       ELSE pc' = pc /\ idx' = idx + 1 /\ ticks' = ticks /\ mainloop' = mainloop
    /\ UNCHANGED <<paramvars, pending, crashed, changes, snap, inrun>>

Next ==
    \/ start
    \/ \E newval \in WeightVals : setcohere(newval)
    \/ \E newval \in WeightVals : setseparate(newval)
    \/ \E newval \in WeightVals : setalign(newval)
    \/ \E newval \in NoiseVals : setnoise(newval)
    \/ \E newval \in VelocityVals : setvelocity(newval)
    \/ \E newval \in RangeVals : setrange(newval)
    \/ updatebounce
    \/ reset
    \/ idlecommands
    \/ update
    \/ update_adjust
    \/ update_move

Spec == Init /\ [][Next]_vars

(*------------------- the setters and one tick ---------------------------*)
(* The main loop between two ticks, the positions and headings being the   *)
(* ones of StartPos and StartHeading: the callbacks that write a parameter *)
(* (lines 246-285), in any number up to MaxChanges and in any order, and   *)
(* the tick that follows them.                                             *)
InitLoop ==
    /\ pos \in StartPos
    /\ heading \in StartHeading
    /\ senserange = defaultparams.senserange
    /\ separate = defaultparams.separate
    /\ align = defaultparams.align
    /\ cohere = defaultparams.cohere
    /\ velocity = defaultparams.velocity
    /\ noise = 1 * PosDen
    /\ bounce \in BOOLEAN
    /\ root_sep = TRUE
    /\ mainloop = TRUE
    /\ pending = FALSE
    /\ rounded = {}
    /\ pc = "idle"
    /\ idx = 1
    /\ crashed = FALSE
    /\ ticks = MaxTicks - 1
    /\ changes = 0
    /\ snap = [pos |-> pos, heading |-> heading]
    /\ seen = {}
    /\ last = NoLast
    /\ inrun = FALSE

NextLoop ==
    \/ \E newval \in WeightVals : setcohere(newval)
    \/ \E newval \in WeightVals : setseparate(newval)
    \/ \E newval \in WeightVals : setalign(newval)
    \/ \E newval \in NoiseVals : setnoise(newval)
    \/ \E newval \in VelocityVals : setvelocity(newval)
    \/ \E newval \in RangeVals : setrange(newval)
    \/ updatebounce
    \/ update
    \/ update_adjust
    \/ update_move

SpecLoop == InitLoop /\ [][NextLoop]_vars

(*----------------------- movetick on its own ----------------------------*)
(* The second loop of one tick, started from positions on, next to and     *)
(* beyond the edges, headings as adjustheading leaves them for velocity 5  *)
(* and 1, either boundary mode and several noise settings.                 *)
MovePos ==
    { <<0, bounds * PosDen>>, <<(bounds - 1) * PosDen, 1 * PosDen>>,
      <<(bounds + 2) * PosDen, -2 * PosDen>>, <<4 * PosDen, (bounds + 1) * PosDen>> }

MoveHeading ==
    { <<5 * PosDen, 0>>, <<-5 * PosDen, 0>>, <<3 * PosDen, 4 * PosDen>>,
      <<-3 * PosDen, -4 * PosDen>>, <<1 * PosDen, 0>>, <<0, -1 * PosDen>>,
      <<0, 0>> }

MoveNoise == {0, 1 * PosDen, 2 * PosDen, 4 * PosDen}

InitMove ==
    /\ \E p \in MovePos : pos = [b \in boidarr |-> p]
    /\ \E h \in MoveHeading :
          /\ heading = [b \in boidarr |-> h]
          /\ velocity = Sqrt(h[1] * h[1] + h[2] * h[2])
    /\ senserange = defaultparams.senserange
    /\ separate = defaultparams.separate
    /\ align = defaultparams.align
    /\ cohere = defaultparams.cohere
    /\ noise \in MoveNoise
    /\ bounce \in BOOLEAN
    /\ root_sep = TRUE
    /\ mainloop = TRUE
    /\ pending = FALSE
    /\ rounded = {}
    /\ pc = "pass2"
    /\ idx = 1
    /\ crashed = FALSE
    /\ ticks = 0
    /\ changes = 0
    /\ snap = [pos |-> pos, heading |-> heading]
    /\ seen = {Params}
    /\ last = NoLast
    /\ inrun = FALSE

SpecMove == InitMove /\ [][update_move]_vars

(*----------------------- findnear on its own ----------------------------*)
(* The first loop of one tick, started with the boids on one spot, in a    *)
(* row with neighbours at distance exactly 5, in a row with neighbours     *)
(* less than 5 apart on each axis but further than 5 away, in a row with   *)
(* neighbours 6 apart on one axis, and in a row with neighbours 3 and 3.99 *)
(* apart on the axes; senserange at the slider's minimum, at 5 and at its  *)
(* default; velocity at 0, at its default and at 10; headings as a tick    *)
(* leaves them for velocity 5, with and without noise, or zero, all the    *)
(* same or opposite in turn.                                               *)
NearPos ==
    { [b \in boidarr |-> <<5 * PosDen, 6 * PosDen>>],
      [b \in boidarr |-> <<3 * (b - 1) * PosDen, 4 * (b - 1) * PosDen>>],
      [b \in boidarr |-> <<4 * (b - 1) * PosDen, 4 * (b - 1) * PosDen>>],
      [b \in boidarr |-> <<6 * (b - 1) * PosDen, 0>>],
      [b \in boidarr |-> <<3 * (b - 1) * PosDen, (4 * PosDen - 1) * (b - 1)>>] }

NearRange == {0, 5 * PosDen, defaultparams.senserange}

NearVelocity == {0, defaultparams.velocity, 10 * PosDen}

NearDir ==
    { <<3 * PosDen, 4 * PosDen>>, <<-4 * PosDen, -3 * PosDen>>,
      <<5 * PosDen, 0>>, <<3 * PosDen - 50, 4 * PosDen + 40>>, <<0, 0>> }

NearHeading ==
    { [b \in boidarr |-> d] : d \in NearDir }
    \cup { [b \in boidarr |-> IF b % 2 = 1 THEN d ELSE <<- d[1], - d[2]>>] :
             d \in NearDir }

InitNear ==
    /\ pos \in NearPos
    /\ heading \in NearHeading
    /\ senserange \in NearRange
    /\ separate = defaultparams.separate
    /\ align = defaultparams.align
    /\ cohere = defaultparams.cohere
    /\ velocity \in NearVelocity
    /\ noise = defaultparams.noise
    /\ bounce = FALSE
    /\ root_sep = TRUE
    /\ mainloop = TRUE
    /\ pending = FALSE
    /\ rounded = {}
    /\ pc = "pass1"
    /\ idx = 1
    /\ crashed = FALSE
    /\ ticks = 0
    /\ changes = 0
    /\ snap = [pos |-> pos, heading |-> heading]
    /\ seen = {}
    /\ last = NoLast
    /\ inrun = FALSE

SpecNear == InitNear /\ [][update_adjust]_vars

(*------------------------------ claims ----------------------------------*)
Outside(x) == ~ Inside(x)

Adjusted == last.op = "adjust" /\ ~ crashed

Moved == last.op = "move"

(* C1: in pass 1 the heading computed for a boid is a function of the      *)
(* positions and headings as they were before the tick: it is what         *)
(* findnear and adjustheading give on the pre-tick snapshot, whatever      *)
(* boids were handled earlier in the pass.                                 *)
PassOneFromSnapshot ==
    Adjusted =>
        /\ last.guide \in findnear(last.boid, snap.pos)
        /\ heading[last.boid]
              = adjustheading(last.boid, last.guide, snap.pos, snap.heading,
                              last.lower)

(* C2: in wrap mode, when position + heading lies in [-bound, 2*bound] on  *)
(* an axis, the position after movetick lies in [0, bound] on that axis.   *)
WrapContainment ==
    (Moved /\ ~ last.params.bounce) =>
        \A i \in Axes :
            (- bounds * PosDen <= last.raw[i] /\ last.raw[i] <= 2 * bounds * PosDen)
                => Inside(pos[last.boid][i])

(* Euclidean distance between two points below r, without square roots. *)
Closer(p, q, r) ==
    /\ r > 0
    /\ (p[1] - q[1]) * (p[1] - q[1]) + (p[2] - q[2]) * (p[2] - q[2]) < r * r

(* C3: findnear returns exactly the boids with another idnum at Euclidean  *)
(* distance strictly below senserange, each once: never the boid itself,   *)
(* never a boid at distance senserange or more, always (for a positive     *)
(* senserange) another boid on the same spot; and the call changes no      *)
(* position and no heading of a boid still to be handled.                  *)
FindnearExact ==
    (last.op = "adjust") =>
        LET self == last.boid
            r == last.params.senserange
            got == {last.guide[k] : k \in 1 .. Len(last.guide)}
        IN  /\ got = {b \in boidarr :
                        idnum(b) # idnum(self) /\ Closer(pos[self], pos[b], r)}
            /\ Cardinality(got) = Len(last.guide)
            /\ self \notin got
            /\ \A b \in boidarr :
                  (b # self /\ pos[b] = pos[self] /\ r > 0) => b \in got
            /\ pos = snap.pos
            /\ \A b \in boidarr : b > self => heading[b] = snap.heading[b]

FindnearSameSpot ==
    /\ last.op = "adjust"
    /\ \E k \in 1 .. Len(last.guide) : pos[last.guide[k]] = pos[last.boid]

(* C4: after adjustheading, with or without neighbours and whatever the    *)
(* velocity, the heading is the zero vector or has the magnitude of the    *)
(* velocity parameter (to one hundredth, the rounding of the two           *)
(* components), so it is never longer than the velocity.                   *)
SpeedClamp ==
    Adjusted =>
        LET h == heading[last.boid]
            v == last.params.velocity
            m2 == h[1] * h[1] + h[2] * h[2]
        IN  \/ h = <<0, 0>>
            \/ /\ v > 0
               /\ m2 <= (v + 1) * (v + 1)
               /\ m2 >= (v - 1) * (v - 1)

ClampedToNewVelocity ==
    /\ Adjusted
    /\ last.guide # <<>>
    /\ last.params.velocity # defaultparams.velocity
    /\ heading[last.boid] # <<0, 0>>
    /\ heading[last.boid] # last.pre

(* C5: in bounce mode, started with every boid inside [0, bound], a        *)
(* position component that is outside after one tick is back inside after  *)
(* the next: no boid is outside on the same axis at two successive ticks.  *)
BounceReturns ==
    (inrun /\ pc = "idle") =>
        \A b \in boidarr : \A i \in Axes :
            ~ (Outside(pos[b][i]) /\ Outside(snap.pos[b][i]))

(* C6: all boids handled in one tick, in both passes, read the same value  *)
(* of every parameter.                                                     *)
OneParameterSnapshot ==
    /\ Cardinality(seen) <= 1
    /\ pc # "idle" => seen \subseteq {Params}

TickAfterChange ==
    /\ pc = "idle"
    /\ ticks = MaxTicks
    /\ changes >= 1
    /\ seen = {Params}
    /\ Params.senserange # defaultparams.senserange

(* C7: senserange > 0 and velocity >= 0 in every reachable state (a value  *)
(* outside the domain given to setrange or setvelocity is rejected and the *)
(* parameter keeps its previous value).                                    *)
DomainKept == senserange > 0 /\ velocity >= 0

(* C8: between ticks some operation of the parameter channel can switch    *)
(* the separation mode.                                                    *)
ModeSelectable ==
    (Dispatch /\ changes < MaxChanges) => ENABLED (Next /\ root_sep' # root_sep)

(* C9, as stated: in bounce mode the position after movetick is the raw    *)
(* position + heading; where that is beyond an edge the sign of the        *)
(* heading component is flipped relative to its sign before the move (a    *)
(* component that was positive is not positive any more, one that was      *)
(* negative not negative), and elsewhere the boundary policy does not      *)
(* negate it.                                                              *)
BounceFlipsSign ==
    (Moved /\ last.params.bounce) =>
        \A i \in Axes :
            /\ pos[last.boid][i] = last.raw[i]
            /\ IF Outside(last.raw[i])
               THEN Sgn(heading[last.boid][i]) * Sgn(last.pre[i]) <= 0
               ELSE heading[last.boid][i] = last.pre[i] + last.n[i]

(* C9, amended: in bounce mode the position after movetick is the raw      *)
(* position + heading; where that is beyond an edge the heading component  *)
(* is the negation of the noise-perturbed component (heading before the    *)
(* move plus the noise drawn for it), and elsewhere it is the perturbed    *)
(* component itself.                                                       *)
BounceNegatesPerturbed ==
    (Moved /\ last.params.bounce) =>
        \A i \in Axes :
            /\ pos[last.boid][i] = last.raw[i]
            /\ IF Outside(last.raw[i])
               THEN heading[last.boid][i] = - (last.pre[i] + last.n[i])
               ELSE heading[last.boid][i] = last.pre[i] + last.n[i]

BouncedWithNoise ==
    /\ Moved
    /\ last.params.bounce
    /\ \E i \in Axes :
          /\ last.raw[i] > bounds * PosDen
          /\ last.n[i] # 0
          /\ last.pre[i] > 0
          /\ heading[last.boid][i] < 0

(* C10: in root mode every argument of math.sqrt in adjustheading,         *)
(* senserange - |delta| for a guide boid and an axis, is >= 0, so          *)
(* adjustheading never raises.                                             *)
RadicandNonNegative ==
    /\ ~ crashed
    /\ last.op = "adjust" => \A r \in last.rads : r >= 0

RootTaken ==
    /\ last.op = "adjust"
    /\ last.params.root_sep
    /\ last.params.senserange # defaultparams.senserange
    /\ \E r \in last.rads : r < last.params.senserange

====
